---------------------------- MODULE Spec2Model ----------------------------
(***************************************************************************)
(* Model of the presentation transform layer of the Stellaris dashboard    *)
(* (src/src/stellarisdashboard/dash_server.py): the event filter, the      *)
(* chart series transforms, the galaxy snapshot grouping, the event ledger *)
(* and war summary builders, the figure layout and the game lookup of the  *)
(* request handlers.                                                       *)
(***************************************************************************)
EXTENDS Integers, Sequences, FiniteSets, TLC

VARIABLES
    CONFIG,                 \* config.CONFIG: the process-wide configuration instance
    Config_show_everything, \* config.Config.show_everything: the class attribute
    DEFAULT_PLOT_LAYOUT,    \* the module-level layout dict (its "hovermode" entry)
    event_filter,           \* the EventFilter object of the current request
    plot_data,              \* the dataset of named series, in its default order
    galaxy_data,            \* ownership change records of the systems and hyperlanes
    db,                     \* the store: countries, events, wars
    known_games,            \* what models.get_known_games lists
    games_dict,             \* what models.get_available_games_dict returns
    call,                   \* the last operation invoked, with its arguments
    ret,                    \* what that operation returned or raised
    outputs                 \* the calls made so far, each with what it returned

vars == <<CONFIG, Config_show_everything, DEFAULT_PLOT_LAYOUT, event_filter,
          plot_data, galaxy_data, db, known_games, games_dict, call, ret, outputs>>

-----------------------------------------------------------------------------
(* Python values.  A value carries its type, so that == between values of   *)
(* different types is False, as in Python, and never a type error.          *)

None == [t |-> "NoneType", v |-> <<>>]
PyInt(i) == [t |-> "int", v |-> <<i>>]
PyStr(s) == [t |-> "str", v |-> s]

PyEq(a, b) == a.t = b.t /\ a.v = b.v

IsNone(a) == a.t = "NoneType"

(* Extended reals for the date range: float("-inf"), a finite day, float("inf"). *)
NegInf == [inf |-> -1, n |-> 0]
PosInf == [inf |-> 1, n |-> 0]
Fin(n) == [inf |-> 0, n |-> n]

FloatLe(a, b) ==
    \/ a.inf < b.inf
    \/ a.inf = b.inf /\ a.inf # 0
    \/ a.inf = 0 /\ b.inf = 0 /\ a.n <= b.n

(* What returned: exc is "none" for a normal return, else the exception.    *)
Returned(v) == [exc |-> "none", val |-> v]
Raised(e) == [exc |-> e, val |-> <<>>]

NoCall == [op |-> "none"]
NoRet == Returned(<<>>)

(* The module-level layout dictionary, as the module creates it *)
InitialPlotLayout ==
    [yaxis |-> [type |-> "linear"], height |-> 640, plot_bgcolor |-> "rgba(43,59,52,1)",
     paper_bgcolor |-> "rgba(33,43,39,1)", font |-> [color |-> "rgba(217,217,217,1)"]]

BOOL_KEYS == {"show_everything", "allow_backdating"}

(* config.CONFIG as loaded at startup *)
DefaultConfig == [show_everything |-> FALSE, allow_backdating |-> TRUE]

-----------------------------------------------------------------------------
(* EventFilter                                                              *)

MaxDay == 1

Days == (0 - MaxDay)..MaxDay

(* A string is the sequence of its characters; a character is a number, 0..9 for *)
(* the decimal digits and any other number for a character that is no digit     *)
Digits == 0..9

IsNumeric(s) == Len(s) > 0 /\ \A i \in 1..Len(s) : s[i] \in Digits

RECURSIVE DigitsValue(_)
DigitsValue(s) ==
    IF s = <<>> THEN 0
    ELSE 10 * DigitsValue(SubSeq(s, 1, Len(s) - 1)) + s[Len(s)]

(* int(x) for an int or a string of decimal digits *)
int(x) == IF x.t = "int" THEN x ELSE PyInt(DigitsValue(x.v))

CoerceFilter(x) == IF ~IsNone(x) THEN int(x) ELSE x

(* int(x) raises ValueError for a string that is not a decimal number *)
IntRaises(x) == x.t = "str" /\ ~IsNumeric(x.v)

EventFilter_init(min_date, max_date, country_filter, type_filter, war_filter, leader_filter, system_filter, planet_filter, faction_filter) ==
    [min_date |-> min_date,
     max_date |-> max_date,
     country_filter |-> CoerceFilter(country_filter),
     type_filter |-> type_filter,
     war_filter |-> CoerceFilter(war_filter),
     leader_filter |-> CoerceFilter(leader_filter),
     system_filter |-> CoerceFilter(system_filter),
     planet_filter |-> CoerceFilter(planet_filter),
     faction_filter |-> CoerceFilter(faction_filter)]

(* EventFilter(...): the object, or the ValueError of the first int() that fails; *)
(* args holds the keyword arguments                                              *)
EventFilter(args) ==
    IF \E k \in {"country_filter", "war_filter", "leader_filter", "system_filter",
                 "planet_filter", "faction_filter"} :
            ~IsNone(args[k]) /\ IntRaises(args[k])
    THEN Raised("ValueError")
    ELSE Returned(EventFilter_init(args.min_date, args.max_date, args.country_filter,
                                   args.type_filter, args.war_filter, args.leader_filter,
                                   args.system_filter, args.planet_filter,
                                   args.faction_filter))

(* result &= (event.X_id == self.X_filter), guarded by "is not None" *)
AndIfSet(result, filter, key) ==
    IF ~IsNone(filter) THEN result /\ PyEq(key, filter) ELSE result

include_event_dropped_leader(self, event) ==
    LET r0 == /\ FloatLe(self.min_date, Fin(event.start_date_days))
              /\ FloatLe(Fin(event.start_date_days), self.max_date)
              /\ (IsNone(self.country_filter) \/ PyEq(self.country_filter, event.country_id))
              /\ (IsNone(self.type_filter) \/ PyEq(self.type_filter, event.event_type))
        r1 == AndIfSet(r0, self.war_filter, event.war_id)
        r3 == AndIfSet(r1, self.system_filter, event.system_id)
        r4 == AndIfSet(r3, self.planet_filter, event.planet_id)
    IN  AndIfSet(r4, self.faction_filter, event.faction_id)

include_event(self, event) ==
    LET r0 == /\ FloatLe(self.min_date, Fin(event.start_date_days))
              /\ FloatLe(Fin(event.start_date_days), self.max_date)
              /\ (IsNone(self.country_filter) \/ PyEq(self.country_filter, event.country_id))
              /\ (IsNone(self.type_filter) \/ PyEq(self.type_filter, event.event_type))
        r1 == AndIfSet(r0, self.war_filter, event.war_id)
        r2 == AndIfSet(r1, self.leader_filter, event.leader_id)
        r3 == AndIfSet(r2, self.system_filter, event.system_id)
        r4 == AndIfSet(r3, self.planet_filter, event.planet_id)
    IN  AndIfSet(r4, self.faction_filter, event.faction_id)

(* Inputs of the filter specification *)
RawIdArgs == {None, PyStr(<<1>>)}
RawTypeArgs == {None, PyInt(1)}
MinDateArgs == {NegInf} \cup {Fin(d) : d \in Days}
MaxDateArgs == {PosInf} \cup {Fin(d) : d \in Days}
RequiredKeys == {PyInt(1), PyInt(2)}
OptionalKeys == {None, PyInt(1)}

FilterEvents ==
    [start_date_days : Days, country_id : RequiredKeys, event_type : RequiredKeys,
     war_id : OptionalKeys, leader_id : OptionalKeys, system_id : OptionalKeys,
     planet_id : OptionalKeys, faction_id : OptionalKeys]

(* One request: the filter is constructed once, then applied to an event. *)
NewEventFilter ==
    /\ call.op = "none"
    /\ \E mn \in MinDateArgs, mx \in MaxDateArgs, ty \in RawTypeArgs :
       \E c \in RawIdArgs, w \in RawIdArgs, l \in RawIdArgs :
       \E s \in RawIdArgs, p \in RawIdArgs, f \in RawIdArgs :
        /\ event_filter' = EventFilter_init(mn, mx, c, ty, w, l, s, p, f)
        /\ call' = [op |-> "EventFilter"]
        /\ ret' = NoRet
        /\ UNCHANGED <<CONFIG, Config_show_everything, DEFAULT_PLOT_LAYOUT, plot_data,
                       galaxy_data, db, known_games, games_dict, outputs>>

IncludeEvent ==
    /\ call.op = "EventFilter"
    /\ ret.exc = "none"
    /\ \E e \in FilterEvents :
        /\ call' = [op |-> "include_event", event |-> e]
        /\ ret' = Returned(include_event(event_filter, e))
        /\ UNCHANGED <<CONFIG, Config_show_everything, DEFAULT_PLOT_LAYOUT, event_filter,
                       plot_data, galaxy_data, db, known_games, games_dict, outputs>>

InitFilter ==
    /\ CONFIG = DefaultConfig
    /\ Config_show_everything = DefaultConfig.show_everything
    /\ DEFAULT_PLOT_LAYOUT = InitialPlotLayout
    /\ event_filter = <<>>
    /\ plot_data = <<>>
    /\ galaxy_data = <<>>
    /\ db = <<>>
    /\ known_games = <<>>
    /\ games_dict = <<>>
    /\ call = NoCall
    /\ ret = NoRet
    /\ outputs = <<>>

NextFilter == NewEventFilter \/ IncludeEvent

SpecFilter == InitFilter /\ [][NextFilter]_vars

(* C1: include_event is the conjunction of the date range test and, for each *)
(* provided filter, equality of the filter's id with the event's foreign key; *)
(* an unset filter never rejects; with only a date range set, the event      *)
(* passes iff min_date <= start_date_days <= max_date.                       *)
DimensionPasses(filter, key) == IsNone(filter) \/ (filter.t = key.t /\ filter.v = key.v)

C1_IncludeIsConjunction ==
    call.op = "include_event" =>
        LET e == call.event
            f == event_filter
            d == e.start_date_days
            inRange == /\ f.min_date.inf = -1 \/ (f.min_date.inf = 0 /\ f.min_date.n <= d)
                       /\ f.max_date.inf = 1 \/ (f.max_date.inf = 0 /\ d <= f.max_date.n)
        IN  /\ ret.val <=> /\ inRange
                           /\ DimensionPasses(f.country_filter, e.country_id)
                           /\ DimensionPasses(f.type_filter, e.event_type)
                           /\ DimensionPasses(f.war_filter, e.war_id)
                           /\ DimensionPasses(f.leader_filter, e.leader_id)
                           /\ DimensionPasses(f.system_filter, e.system_id)
                           /\ DimensionPasses(f.planet_filter, e.planet_id)
                           /\ DimensionPasses(f.faction_filter, e.faction_id)
            /\ (\A k \in {"country_filter", "type_filter", "war_filter", "leader_filter",
                          "system_filter", "planet_filter", "faction_filter"} :
                    IsNone(f[k]))
               => (ret.val <=> inRange)

(* C1 witness: a filter with a finite date range and a leader filter has     *)
(* rejected an in-range event of another leader.                             *)
C1_Witness ==
    /\ call.op = "include_event"
    /\ event_filter.min_date.inf = 0
    /\ event_filter.max_date.inf = 0
    /\ event_filter.min_date.n <= call.event.start_date_days
    /\ call.event.start_date_days <= event_filter.max_date.n
    /\ ~IsNone(event_filter.leader_filter)
    /\ IsNone(event_filter.war_filter)
    /\ IsNone(call.event.leader_id)
    /\ ret.val = FALSE

-----------------------------------------------------------------------------
(* ColorAssigner                                                            *)

Names == <<"A", "B", "C", "D", "E", "F", "G", "H", "UNCLAIMED">>

NameIndex(name) == CHOOSE i \in 1..Len(Names) : Names[i] = name

(* visualization_data.get_color_vals: a deterministic (r, g, b) per key *)
get_color_vals(key_str) ==
    LET i == NameIndex(key_str) IN <<i % 2, (i \div 2) % 2, (i \div 4) % 2>>

Min(a, b) == IF a <= b THEN a ELSE b
Max(a, b) == IF a >= b THEN a ELSE b

(* alpha is in hundredths: 1.0 is 100 *)
get_country_color(country_name, alpha) ==
    LET a1 == Min(alpha, 100)
        a2 == Max(a1, 0)
        rgb == get_color_vals(country_name)
    IN  [r |-> rgb[1] * 255, g |-> rgb[2] * 255, b |-> rgb[3] * 255, alpha |-> a2]

-----------------------------------------------------------------------------
(* ChartSeriesTransformer                                                   *)

MaxPoints == 5

YValues == {-1, 0, 1}

(* All datasets (lists of y-sequences, each of at least one point) of at most p points *)
RECURSIVE YLists(_)
YLists(p) ==
    {<<>>} \cup
    UNION { LET rests == YLists(p - n)
            IN  { <<y>> \o rest : y \in [1..n -> YValues], rest \in rests }
            : n \in 1..p }

(* A named series: x are the days of its own samples, len(x) = len(y) *)
NamedSeries(i, y) == [key |-> Names[i], x |-> [j \in 1..Len(y) |-> j], y |-> y]

(* The datasets of at most p points, the series named in order *)
Datasets(p) == { [i \in 1..Len(ys) |-> NamedSeries(i, ys[i])] : ys \in YLists(p) }

(* EmpireProgressionPlotData.iterate_data: the series in the default order *)
iterate_data(data) == data

LastValue(s) == s.y[Len(s.y)]

RECURSIVE InsertByLastValue(_, _)
InsertByLastValue(sorted, s) ==
    IF sorted = <<>> THEN <<s>>
    ELSE IF LastValue(Head(sorted)) >= LastValue(s)
         THEN <<Head(sorted)>> \o InsertByLastValue(Tail(sorted), s)
         ELSE <<s>> \o sorted

(* EmpireProgressionPlotData.data_sorted_by_last_value: descending by final y, stable *)
RECURSIVE data_sorted_by_last_value(_)
data_sorted_by_last_value(data) ==
    IF data = <<>> THEN <<>>
    ELSE InsertByLastValue(data_sorted_by_last_value(SubSeq(data, 1, Len(data) - 1)),
                           data[Len(data)])

(* any(y_values) *)
any(y_values) == \E i \in 1..Len(y_values) : y_values[i] # 0

Zeros(n) == [i \in 1..n |-> 0]

(* f"{val:.2f} - {key}" *)
HoverText(val, key) == <<val, key>>

(* [f"{val:.2f} - {key}" if val else "" for val in y_values] *)
HoverTextOrEmpty(y_values, key) ==
    [i \in 1..Len(y_values) |-> IF y_values[i] # 0 THEN HoverText(y_values[i], key) ELSE <<>>]

LinePlotLine(s) ==
    [x |-> s.x, y |-> s.y, name |-> s.key,
     text |-> [i \in 1..Len(s.y) |-> HoverText(s.y[i], s.key)],
     line |-> [color |-> get_country_color(s.key, 100)]]

RECURSIVE LineLoop(_, _, _)
LineLoop(data, i, plot_list) ==
    IF i > Len(data) THEN plot_list
    ELSE IF ~any(data[i].y) THEN LineLoop(data, i + 1, plot_list)
    ELSE LineLoop(data, i + 1, Append(plot_list, LinePlotLine(data[i])))

RECURSIVE LineLoop_no_skip(_, _, _)
LineLoop_no_skip(data, i, plot_list) ==
    IF i > Len(data) THEN plot_list
    ELSE LineLoop_no_skip(data, i + 1, Append(plot_list, LinePlotLine(data[i])))

get_line_plot_data_no_skip(data) ==
    Returned(LineLoop_no_skip(data_sorted_by_last_value(data), 1, <<>>))

get_line_plot_data(data) ==
    Returned(LineLoop(data_sorted_by_last_value(data), 1, <<>>))

(* [(a + b) for a, b in zip(y_previous, y_values)] *)
ZipSum(a, b) == [i \in 1..Min(Len(a), Len(b)) |-> a[i] + b[i]]

(* y_previous is <<>> for None, <<list>> for a list *)
RECURSIVE StackedLoop(_, _, _, _)
StackedLoop(data, i, y_previous, plot_list) ==
    IF i > Len(data) THEN plot_list
    ELSE LET s == data[i] IN
         IF ~any(s.y) THEN StackedLoop(data, i + 1, y_previous, plot_list)
         ELSE LET y0 == IF y_previous = <<>> THEN Zeros(Len(s.x)) ELSE y_previous[1]
                  y1 == ZipSum(y0, s.y)
                  line == [x |-> s.x, name |-> s.key, fill |-> "tonexty",
                           hoverinfo |-> "x+text", y |-> y1,
                           text |-> HoverTextOrEmpty(s.y, s.key),
                           line |-> [color |-> get_country_color(s.key, 100)],
                           fillcolor |-> get_country_color(s.key, 75)]
              IN  StackedLoop(data, i + 1, <<y1>>,
                              IF y1 # <<>> THEN Append(plot_list, line) ELSE plot_list)

get_stacked_plot_data(data) == Returned(StackedLoop(iterate_data(data), 1, <<>>, <<>>))

(* Which accumulator a budget series goes to *)
BudgetClass_single_stack(y_values) ==
    IF \A i \in 1..Len(y_values) : y_values[i] <= 0 THEN "pos"
    ELSE IF \A i \in 1..Len(y_values) : y_values[i] >= 0 THEN "pos"
    ELSE "mixed"

BudgetClass(y_values) ==
    IF \A i \in 1..Len(y_values) : y_values[i] <= 0 THEN "neg"
    ELSE IF \A i \in 1..Len(y_values) : y_values[i] >= 0 THEN "pos"
    ELSE "mixed"

(* for i, y in enumerate(y_values): acc[i] += y ; defined when len(y_values) <= len(acc) *)
AddInto(acc, y_values) ==
    [i \in 1..Len(acc) |-> IF i <= Len(y_values) THEN acc[i] + y_values[i] ELSE acc[i]]

BudgetStart ==
    [net_gain |-> <<>>, pos |-> <<>>, neg |-> <<>>, pos_initiated |-> FALSE,
     plot_list |-> <<>>, exc |-> "none", stop |-> FALSE]

BudgetLine(s, y, fill_mode) ==
    [x |-> s.x, name |-> s.key, hoverinfo |-> "x+text", y |-> y, fill |-> fill_mode,
     line |-> [color |-> get_country_color(s.key, 100)],
     fillcolor |-> get_country_color(s.key, 30),
     text |-> HoverTextOrEmpty(s.y, s.key)]

(* One iteration of the loop over the series; net_gain is <<>> for None *)
BudgetStep_skip_mixed(st, s) ==
    IF ~any(s.y) THEN st
    ELSE LET st1 == IF st.net_gain = <<>>
                    THEN [st EXCEPT !.net_gain = <<Zeros(Len(s.x))>>,
                                    !.pos = Zeros(Len(s.x)), !.neg = Zeros(Len(s.x))]
                    ELSE st
             class == BudgetClass(s.y)
         IN  IF class = "mixed" THEN st1
             ELSE IF Len(s.y) > Len(st1.net_gain[1]) THEN [st1 EXCEPT !.exc = "IndexError"]
             ELSE IF class = "neg"
                  THEN LET neg == AddInto(st1.neg, s.y) IN
                       [st1 EXCEPT !.neg = neg,
                                   !.net_gain = <<AddInto(st1.net_gain[1], s.y)>>,
                                   !.plot_list = Append(@, BudgetLine(s, neg, "tozeroy"))]
                  ELSE LET pos == AddInto(st1.pos, s.y) IN
                       [st1 EXCEPT !.pos = pos,
                                   !.net_gain = <<AddInto(st1.net_gain[1], s.y)>>,
                                   !.pos_initiated = TRUE,
                                   !.plot_list = Append(@, BudgetLine(s, pos,
                                       IF st1.pos_initiated THEN "tonexty" ELSE "tozeroy"))]

BudgetStep(st, s) ==
    IF ~any(s.y) THEN st
    ELSE LET st1 == IF st.net_gain = <<>>
                    THEN [st EXCEPT !.net_gain = <<Zeros(Len(s.x))>>,
                                    !.pos = Zeros(Len(s.x)), !.neg = Zeros(Len(s.x))]
                    ELSE st
             class == BudgetClass(s.y)
         IN  IF class = "mixed" THEN [st1 EXCEPT !.stop = TRUE]
             ELSE IF Len(s.y) > Len(st1.net_gain[1]) THEN [st1 EXCEPT !.exc = "IndexError"]
             ELSE IF class = "neg"
                  THEN LET neg == AddInto(st1.neg, s.y) IN
                       [st1 EXCEPT !.neg = neg,
                                   !.net_gain = <<AddInto(st1.net_gain[1], s.y)>>,
                                   !.plot_list = Append(@, BudgetLine(s, neg, "tozeroy"))]
                  ELSE LET pos == AddInto(st1.pos, s.y) IN
                       [st1 EXCEPT !.pos = pos,
                                   !.net_gain = <<AddInto(st1.net_gain[1], s.y)>>,
                                   !.pos_initiated = TRUE,
                                   !.plot_list = Append(@, BudgetLine(s, pos,
                                       IF st1.pos_initiated THEN "tonexty" ELSE "tozeroy"))]

RECURSIVE BudgetLoop(_, _, _)
BudgetLoop(data, i, st) ==
    IF i > Len(data) \/ st.stop \/ st.exc # "none" THEN st
    ELSE BudgetLoop(data, i + 1, BudgetStep(st, data[i]))

NetGainLine(plot_list, net_gain) ==
    [x |-> plot_list[1].x, y |-> net_gain, name |-> "Net gain",
     line |-> [color |-> [r |-> 255, g |-> 255, b |-> 255, alpha |-> 100]],
     text |-> [i \in 1..Len(net_gain) |-> HoverText(net_gain[i], "net gain")],
     hoverinfo |-> "x+text"]

(* The loop and the trailing net-gain line, for the series as consumed *)
BudgetPlot(consumed) ==
    LET st == BudgetLoop(consumed, 1, BudgetStart) IN
    IF st.exc # "none" THEN Raised(st.exc)
    ELSE IF st.plot_list # <<>>
         THEN Returned(Append(st.plot_list, NetGainLine(st.plot_list, st.net_gain[1])))
         ELSE Returned(st.plot_list)

get_budget_plot_data(data) == BudgetPlot(data_sorted_by_last_value(data))

PlotStyles == {"line", "stacked", "budget", "unknown"}

get_plot_lines(data, style) ==
    IF style = "line" THEN get_line_plot_data(data)
    ELSE IF style = "stacked" THEN get_stacked_plot_data(data)
    ELSE IF style = "budget" THEN get_budget_plot_data(data)
    ELSE Returned(<<>>)

GetPlotLines ==
    /\ call.op = "none"
    /\ \E style \in PlotStyles :
        /\ call' = [op |-> "get_plot_lines", style |-> style]
        /\ ret' = get_plot_lines(plot_data, style)
    /\ UNCHANGED <<CONFIG, Config_show_everything, DEFAULT_PLOT_LAYOUT, event_filter,
                   plot_data, galaxy_data, db, known_games, games_dict, outputs>>

InitPlot ==
    /\ CONFIG = DefaultConfig
    /\ Config_show_everything = DefaultConfig.show_everything
    /\ DEFAULT_PLOT_LAYOUT = InitialPlotLayout
    /\ event_filter = <<>>
    /\ plot_data \in Datasets(MaxPoints)
    /\ galaxy_data = <<>>
    /\ db = <<>>
    /\ known_games = <<>>
    /\ games_dict = <<>>
    /\ call = NoCall
    /\ ret = NoRet
    /\ outputs = <<>>

NextPlot == GetPlotLines

SpecPlot == InitPlot /\ [][NextPlot]_vars

(* Pointwise comparison and sum over the x-indices: a series has no value (0) *)
(* at an index beyond its own length.                                        *)
At(seq, i) == IF i <= Len(seq) THEN seq[i] ELSE 0

PointwiseEq(a, b) == \A i \in 1..Max(Len(a), Len(b)) : At(a, i) = At(b, i)

RECURSIVE SumAt(_, _)
SumAt(ys, i) == IF ys = <<>> THEN 0 ELSE At(Head(ys), i) + SumAt(Tail(ys), i)

RECURSIVE LongestLen(_)
LongestLen(ys) == IF ys = <<>> THEN 0 ELSE Max(Len(Head(ys)), LongestLen(Tail(ys)))

PointwiseSum(ys) == [i \in 1..LongestLen(ys) |-> SumAt(ys, i)]

IsNonZero(s) == \E i \in 1..Len(s.y) : s.y[i] # 0

NonDropped(data) == SelectSeq(data, IsNonZero)

(* The position in the dataset of the series of that name *)
RawY(name) == CHOOSE i \in 1..Len(plot_data) : plot_data[i].key = name

IsMixed(y) == (\E i \in 1..Len(y) : y[i] > 0) /\ (\E i \in 1..Len(y) : y[i] < 0)

SignClass(y) == IF \A i \in 1..Len(y) : y[i] <= 0 THEN "neg" ELSE "pos"

PlotCalled(style) == call.op = "get_plot_lines" /\ call.style = style

(* C2: stacked mode: the k-th output series' y is the pointwise sum of the   *)
(* first k non-dropped input series, and so the last output series' y is the *)
(* pointwise sum of all non-dropped input series, also when the series have  *)
(* differing lengths.                                                        *)
C2_StackedIsRunningSum ==
    PlotCalled("stacked") =>
        LET nd == NonDropped(plot_data)
            out == ret.val
        IN  /\ ret.exc = "none"
            /\ Len(out) = Len(nd)
            /\ \A k \in 1..Len(nd) :
                PointwiseEq(out[k].y,
                            PointwiseSum([j \in 1..k |-> nd[j].y]))

(* C3: budget mode without mixed-sign series: each emitted series' y is the  *)
(* pointwise sum of its own raw y and the raw y of the earlier emitted       *)
(* series of its sign class; the output is empty or ends with exactly one    *)
(* "Net gain" series, after at least one emitted series, whose y is the      *)
(* pointwise sum of the raw y of all emitted series.                         *)
C3_BudgetStacksByClass ==
    (/\ PlotCalled("budget")
     /\ ret.exc = "none"
     /\ \A i \in 1..Len(plot_data) : ~IsMixed(plot_data[i].y)) =>
        LET out == ret.val
            n == Len(out)
            raw(k) == plot_data[RawY(out[k].name)].y
            sameClass(k) == SelectSeq([j \in 1..k |-> j],
                                LAMBDA j : SignClass(raw(j)) = SignClass(raw(k)))
        IN  out # <<>> =>
              /\ n >= 2
              /\ out[n].name = "Net gain"
              /\ \A k \in 1..(n - 1) : out[k].name # "Net gain"
              /\ \A k \in 1..(n - 1) :
                    PointwiseEq(out[k].y,
                        PointwiseSum([j \in 1..Len(sameClass(k)) |-> raw(sameClass(k)[j])]))
              /\ PointwiseEq(out[n].y, PointwiseSum([j \in 1..(n - 1) |-> raw(j)]))

(* C3 witness: a budget plot returned two series of one sign class and one   *)
(* of the other, then the net gain.                                          *)
C3_Witness ==
    /\ PlotCalled("budget")
    /\ ret.exc = "none"
    /\ \A i \in 1..Len(plot_data) : ~IsMixed(plot_data[i].y)
    /\ Len(ret.val) = 4
    /\ \E j, k, l \in 1..3 :
        /\ j < k
        /\ SignClass(plot_data[RawY(ret.val[j].name)].y) = "pos"
        /\ SignClass(plot_data[RawY(ret.val[k].name)].y) = "pos"
        /\ SignClass(plot_data[RawY(ret.val[l].name)].y) = "neg"

FirstMixed(consumed) ==
    CHOOSE m \in 1..Len(consumed) :
        /\ IsMixed(consumed[m].y)
        /\ \A j \in 1..(m - 1) : ~IsMixed(consumed[j].y)

(* C4: budget mode: the first mixed-sign series reached and every series     *)
(* after it neither appear in the output nor contribute to an accumulator:   *)
(* the result is that of the series before it alone, the emitted series      *)
(* followed by the net gain of those series, and empty when none was emitted.*)
C4_BudgetMixedSignAbort ==
    (/\ PlotCalled("budget")
     /\ \E i \in 1..Len(plot_data) : IsMixed(plot_data[i].y)) =>
        LET consumed == data_sorted_by_last_value(plot_data)
            m == FirstMixed(consumed)
            before == NonDropped(SubSeq(consumed, 1, m - 1))
            out == ret.val
            n == Len(out)
        IN  /\ ret = BudgetPlot(SubSeq(consumed, 1, m - 1))
            /\ ret.exc = "none" =>
                /\ \A k \in 1..n : \A j \in m..Len(consumed) : out[k].name # consumed[j].key
                /\ before = <<>> => out = <<>>
                /\ before # <<>> =>
                    /\ n = Len(before) + 1
                    /\ \A k \in 1..Len(before) : out[k].name = before[k].key
                    /\ out[n].name = "Net gain"
                    /\ PointwiseEq(out[n].y,
                                   PointwiseSum([j \in 1..Len(before) |-> before[j].y]))

(* C4 witness: a budget plot reached a mixed-sign series after it emitted a  *)
(* series, with a further non-zero series after the mixed one.               *)
C4_Witness ==
    /\ PlotCalled("budget")
    /\ ret.exc = "none"
    /\ \E i \in 1..Len(plot_data) : IsMixed(plot_data[i].y)
    /\ LET consumed == data_sorted_by_last_value(plot_data)
           m == FirstMixed(consumed)
       IN  /\ m > 1
           /\ m < Len(consumed)
           /\ IsNonZero(consumed[m + 1])
           /\ Len(ret.val) = 2

(* C5: in every style, no series whose y-values are all zero is in the       *)
(* output, and the output is that of the dataset without those series.       *)
C5_ZeroSeriesDropped ==
    (call.op = "get_plot_lines" /\ call.style \in {"line", "stacked", "budget"}) =>
        /\ ret = get_plot_lines(NonDropped(plot_data), call.style)
        /\ ret.exc = "none" =>
            \A k \in 1..Len(ret.val) : \A i \in 1..Len(plot_data) :
                ~IsNonZero(plot_data[i]) => ret.val[k].name # plot_data[i].key

(* C5 witness: a budget plot was made of a dataset that has an all-zero      *)
(* series before and after a non-zero one, and has lines.                    *)
C5_Witness ==
    /\ PlotCalled("budget")
    /\ ret.exc = "none"
    /\ Len(ret.val) >= 2
    /\ Len(plot_data) >= 3
    /\ ~IsNonZero(plot_data[1])
    /\ IsNonZero(plot_data[2])
    /\ ~IsNonZero(plot_data[3])

-----------------------------------------------------------------------------
(* GalaxySnapshotBuilder                                                    *)

MaxGalaxyDay == 1

UNCLAIMED == "UNCLAIMED"

Owners == {"A", "B"}

RecordDays == 0..MaxGalaxyDay

QueryDates == (0 - 1)..(MaxGalaxyDay + 1)

(* Ownership histories: change records (date, owner), ascending in date, at most *)
(* one per day; built day by day from the last day down                          *)
RECURSIVE HistoriesFrom(_)
HistoriesFrom(day) ==
    IF day > MaxGalaxyDay THEN {<<>>}
    ELSE LET later == HistoriesFrom(day + 1) IN
         later \cup { <<[date |-> day, owner |-> o]>> \o h : o \in Owners, h \in later }

(* Two systems joined by one hyperlane *)
Galaxies(histories) ==
    { [nodes |-> << [name |-> "Sol", pos |-> <<1, 5>>, history |-> h1],
                    [name |-> "Deneb", pos |-> <<2, 7>>, history |-> h2] >>,
       edges |-> << [ends |-> <<1, 2>>, history |-> h3] >>]
      : h1 \in histories, h2 \in histories, h3 \in histories }

(* The owner as of the date: the owner of the last record not after it *)
RECURSIVE OwnerAt(_, _, _)
OwnerAt(history, date, owner) ==
    IF history = <<>> THEN owner
    ELSE OwnerAt(Tail(history), date,
                 IF Head(history).date <= date THEN Head(history).owner ELSE owner)

(* GalaxyMapData.get_graph_for_date: each node and edge tagged with its country *)
get_graph_for_date(galaxy, date) ==
    [nodes |-> [i \in 1..Len(galaxy.nodes) |->
                    [name |-> galaxy.nodes[i].name, pos |-> galaxy.nodes[i].pos,
                     country |-> OwnerAt(galaxy.nodes[i].history, date, UNCLAIMED)]],
     edges |-> [i \in 1..Len(galaxy.edges) |->
                    [ends |-> galaxy.edges[i].ends,
                     country |-> OwnerAt(galaxy.edges[i].history, date, UNCLAIMED)]]]

(* A dict of traces is the sequence of its values in insertion order, each *)
(* holding its key in the field country                                    *)
HasKey(traces, country) == \E i \in 1..Len(traces) : traces[i].country = country

KeyIndex(traces, country) == CHOOSE i \in 1..Len(traces) : traces[i].country = country

NewEdgeTrace(country) ==
    [country |-> country, x |-> <<>>, y |-> <<>>, text |-> <<>>,
     line |-> [width |-> IF country = UNCLAIMED THEN 1 ELSE 8,
               color |-> get_country_color(country, 100)],
     hoverinfo |-> "text", mode |-> "lines", showlegend |-> FALSE]

(* One iteration of the loop over graph.edges; a coordinate is <<v>>, the gap <<>> *)
AddEdge(traces, graph, edge) ==
    LET country == edge.country
        t1 == IF ~HasKey(traces, country) THEN Append(traces, NewEdgeTrace(country))
              ELSE traces
        k == KeyIndex(t1, country)
        p0 == graph.nodes[edge.ends[1]].pos
        p1 == graph.nodes[edge.ends[2]].pos
    IN  [t1 EXCEPT ![k].x = @ \o << <<p0[1]>>, <<p1[1]>>, <<>> >>,
                   ![k].y = @ \o << <<p0[2]>>, <<p1[2]>>, <<>> >>,
                   ![k].text = Append(@, country)]

NewNodeTrace(country) ==
    [country |-> country, x |-> <<>>, y |-> <<>>, text |-> <<>>, mode |-> "markers",
     hoverinfo |-> "text",
     marker |-> [color |-> <<>>, size |-> IF country # UNCLAIMED THEN 10 ELSE 4,
                 line |-> [width |-> 5]],   \* 0.5, in tenths
     name |-> country]

(* f'{graph.nodes[node]["name"]}{country_str}' *)
NodeText(node) ==
    <<node.name, IF node.country # UNCLAIMED THEN <<node.country>> ELSE <<>> >>

AddNode_fresh_trace(traces, node) ==
    LET country == node.country
        t1 == IF ~HasKey(traces, country) THEN Append(traces, NewNodeTrace(country))
              ELSE [traces EXCEPT ![KeyIndex(traces, country)] = NewNodeTrace(country)]
        k == KeyIndex(t1, country)
    IN  [t1 EXCEPT ![k].marker.color = Append(@, get_country_color(country, 100)),
                   ![k].x = Append(@, node.pos[1]),
                   ![k].y = Append(@, node.pos[2]),
                   ![k].text = Append(@, NodeText(node))]

(* One iteration of the loop over graph.nodes *)
AddNode(traces, node) ==
    LET country == node.country
        t1 == IF ~HasKey(traces, country) THEN Append(traces, NewNodeTrace(country))
              ELSE traces
        k == KeyIndex(t1, country)
    IN  [t1 EXCEPT ![k].marker.color = Append(@, get_country_color(country, 100)),
                   ![k].x = Append(@, node.pos[1]),
                   ![k].y = Append(@, node.pos[2]),
                   ![k].text = Append(@, NodeText(node))]

RECURSIVE EdgeLoop(_, _, _)
EdgeLoop(graph, i, traces) ==
    IF i > Len(graph.edges) THEN traces
    ELSE EdgeLoop(graph, i + 1, AddEdge(traces, graph, graph.edges[i]))

RECURSIVE NodeLoop(_, _, _)
NodeLoop(graph, i, traces) ==
    IF i > Len(graph.nodes) THEN traces
    ELSE NodeLoop(graph, i + 1, AddNode(traces, graph.nodes[i]))

(* the figure's data: the edge traces, then the node traces *)
get_galaxy(galaxy, date) ==
    LET graph == get_graph_for_date(galaxy, date) IN
    [edge_traces |-> EdgeLoop(graph, 1, <<>>), node_traces |-> NodeLoop(graph, 1, <<>>)]

GetGalaxy ==
    /\ call.op = "none"
    /\ \E date \in QueryDates :
        /\ call' = [op |-> "get_galaxy", date |-> date]
        /\ ret' = Returned(get_galaxy(galaxy_data, date))
    /\ UNCHANGED <<CONFIG, Config_show_everything, DEFAULT_PLOT_LAYOUT, event_filter,
                   plot_data, galaxy_data, db, known_games, games_dict, outputs>>

InitGalaxy ==
    /\ CONFIG = DefaultConfig
    /\ Config_show_everything = DefaultConfig.show_everything
    /\ DEFAULT_PLOT_LAYOUT = InitialPlotLayout
    /\ event_filter = <<>>
    /\ plot_data = <<>>
    /\ galaxy_data \in Galaxies(HistoriesFrom(0))
    /\ db = <<>>
    /\ known_games = <<>>
    /\ games_dict = <<>>
    /\ call = NoCall
    /\ ret = NoRet
    /\ outputs = <<>>

NextGalaxy == GetGalaxy

SpecGalaxy == InitGalaxy /\ [][NextGalaxy]_vars

(* The owner recorded in the latest change record with timestamp <= d, else UNCLAIMED *)
IsLatestOwner(history, d, owner) ==
    \/ /\ \A i \in 1..Len(history) : history[i].date > d
       /\ owner = UNCLAIMED
    \/ \E i \in 1..Len(history) :
        /\ history[i].date <= d
        /\ \A j \in 1..Len(history) : history[j].date <= d => history[j].date <= history[i].date
        /\ owner = history[i].owner

(* The entries of a node trace that show the node; of an edge trace, the edge *)
NodeEntries(trace, node) ==
    { i \in 1..Len(trace.text) :
        trace.text[i][1] = node.name /\ trace.x[i] = node.pos[1] /\ trace.y[i] = node.pos[2] }

EdgeEntries(trace, galaxy, edge) ==
    { i \in 1..Len(trace.text) :
        /\ trace.x[3 * i - 2] = <<galaxy.nodes[edge.ends[1]].pos[1]>>
        /\ trace.x[3 * i - 1] = <<galaxy.nodes[edge.ends[2]].pos[1]>>
        /\ trace.x[3 * i] = <<>> }

-----------------------------------------------------------------------------
(* Configuration and the settings update                                    *)

(* apply_settings: a checked box is in the form data, an unchecked one is not; *)
(* Config.apply_dict sets the attributes on the instance config.CONFIG          *)
apply_settings(form) == [key \in BOOL_KEYS |-> key \in form]

ApplySettings ==
    /\ call.op = "none"
    /\ \E form \in SUBSET BOOL_KEYS :
        /\ CONFIG' = apply_settings(form)
        /\ call' = [op |-> "apply_settings"]
        /\ ret' = Returned(<<"redirect", "/">>)
    /\ UNCHANGED <<Config_show_everything, DEFAULT_PLOT_LAYOUT, event_filter, plot_data,
                   galaxy_data, db, known_games, games_dict, outputs>>

-----------------------------------------------------------------------------
(* Dates                                                                    *)

(* models.days_to_date: days since 2200.01.01 as year.month.day, months of 30 days; *)
(* no date for None                                                                  *)
days_to_date(days) ==
    IF IsNone(days) THEN None
    ELSE LET d == days.v[1]
             year_offset == d \div 360
             d1 == d - 360 * year_offset
             month_offset == d1 \div 30
             d2 == d1 - 30 * month_offset
         IN  PyStr(<<2200 + year_offset, 1 + month_offset, d2 + 1>>)

(* the truth value of an optional integer: None and 0 are false *)
Truthy(x) == ~IsNone(x) /\ x.v # <<0>>

PyObj(type, id) == [t |-> type, v |-> <<id>>]

-----------------------------------------------------------------------------
(* The countries of the store                                               *)

Government ==
    [personality |-> "honorbound_warriors", gov_type |-> "gov_military_junta",
     authority |-> "auth_oligarchic", ethics |-> <<2, 1>>, civics |-> <<1>>]

MostRecentData ==
    [attitude_towards_player |-> "cordial",
     has_research_agreement_with_player |-> TRUE, has_sensor_link_with_player |-> FALSE,
     has_rivalry_with_player |-> FALSE, has_defensive_pact_with_player |-> FALSE,
     has_migration_treaty_with_player |-> TRUE, has_federation_with_player |-> FALSE,
     has_non_aggression_pact_with_player |-> FALSE, has_closed_borders_with_player |-> FALSE]

(* The countries of the ledger store: the player's, with a government, and another *)
LedgerCountries ==
    << [country_id |-> 1, country_name |-> "A", country_type |-> "default", is_player |-> TRUE,
        government |-> <<Government>>, most_recent_data |-> <<>>,
        first_player_contact_date |-> PyInt(0)],
       [country_id |-> 2, country_name |-> "B", country_type |-> "fallen_empire",
        is_player |-> FALSE, government |-> <<>>, most_recent_data |-> <<MostRecentData>>,
        first_player_contact_date |-> None] >>

-----------------------------------------------------------------------------
(* WarSummaryBuilder                                                        *)

MaxWars == 1

NOTABLE_EXHAUSTION == 10               \* 0.01, in thousandths

EmptyDb == [countries |-> <<>>, events |-> <<>>, wars |-> <<>>]

WarCountry(id, contact) ==
    [LedgerCountries[id] EXCEPT !.first_player_contact_date = contact]

ContactDates == {None, PyInt(0)}

WarCountryLists == { <<WarCountry(1, c1), WarCountry(2, c2)>> : c1 \in ContactDates, c2 \in ContactDates }

ParticipantLists ==
    { <<>>,
      << [country |-> 1, is_attacker |-> TRUE] >>,
      << [country |-> 2, is_attacker |-> FALSE] >>,
      << [country |-> 1, is_attacker |-> TRUE], [country |-> 2, is_attacker |-> FALSE] >>,
      << [country |-> 2, is_attacker |-> FALSE], [country |-> 2, is_attacker |-> TRUE],
         [country |-> 1, is_attacker |-> TRUE] >> }

(* war exhaustion in thousandths *)
CombatLists ==
    { <<>>,
      << [id |-> 1, date |-> 2, attacker_war_exhaustion |-> 20, defender_war_exhaustion |-> 0,
          combat_type |-> "ships"],
         [id |-> 2, date |-> 1, attacker_war_exhaustion |-> 5, defender_war_exhaustion |-> 5,
          combat_type |-> "ships"],
         [id |-> 3, date |-> 1, attacker_war_exhaustion |-> 0, defender_war_exhaustion |-> 0,
          combat_type |-> "armies"] >> }

WarStartDays == {0, 1}
WarEndDays == {None, PyInt(0), PyInt(2)}
CurrentDates == {3}

Wars ==
    [start_date_days : WarStartDays, end_date_days : WarEndDays,
     participants : ParticipantLists, combat : CombatLists]

RECURSIVE WarListsOf(_)
WarListsOf(n) ==
    IF n = 0 THEN {<<>>}
    ELSE LET shorter == WarListsOf(n - 1) IN
         shorter \cup { Append(ws, w) : ws \in {l \in shorter : Len(l) = n - 1}, w \in Wars }

WarDbs(n) ==
    { [countries |-> cs, events |-> <<>>,
       wars |-> [i \in 1..Len(ws) |-> [war_id |-> i] @@ ws[i]]]
      : cs \in WarCountryLists, ws \in WarListsOf(n) }

(* sorted(seq, key=...) ascending, stable: insertion after the elements not greater *)
RECURSIVE InsertByKey(_, _, _)
InsertByKey(sorted, e, key) ==
    IF sorted = <<>> THEN <<e>>
    ELSE IF Head(sorted)[key] <= e[key]
         THEN <<Head(sorted)>> \o InsertByKey(Tail(sorted), e, key)
         ELSE <<e>> \o sorted

RECURSIVE SortedByKey(_, _)
SortedByKey(seq, key) ==
    IF seq = <<>> THEN <<>>
    ELSE InsertByKey(SortedByKey(SubSeq(seq, 1, Len(seq) - 1), key), seq[Len(seq)], key)

CountryById(store, id) ==
    store.countries[CHOOSE i \in 1..Len(store.countries) : store.countries[i].country_id = id]

(* the loop over war.participants that looks for a country with a first contact *)
is_visible_to_player(store, war) ==
    \E i \in 1..Len(war.participants) :
        ~IsNone(CountryById(store, war.participants[i].country).first_player_contact_date)

IsNotable(combat) ==
    \/ combat.attacker_war_exhaustion + combat.defender_war_exhaustion > NOTABLE_EXHAUSTION
    \/ combat.combat_type = "armies"

WarDict(war, current_date) ==
    LET combats == SortedByKey(war.combat, "date")
        notable == SelectSeq(combats, IsNotable)
        attacking(wp) == wp.is_attacker
        defending(wp) == ~wp.is_attacker
        participant(wp) == [country |-> wp.country, wp |-> wp]
        attackers == SelectSeq(war.participants, attacking)
        defenders == SelectSeq(war.participants, defending)
    IN  [war |-> war.war_id,
         start |-> days_to_date(PyInt(war.start_date_days)),
         end |-> IF Truthy(war.end_date_days) THEN days_to_date(war.end_date_days)
                 ELSE days_to_date(PyInt(current_date)),
         attackers |-> [i \in 1..Len(attackers) |-> participant(attackers[i])],
         defenders |-> [i \in 1..Len(defenders) |-> participant(defenders[i])],
         combat |-> [i \in 1..Len(notable) |-> <<"combat", notable[i].id>>]]

(* The gate of get_war_dicts: it reads the attribute of the class config.Config *)
WarIsListed(store, war, class_show_everything) ==
    class_show_everything \/ is_visible_to_player(store, war)

RECURSIVE WarLoop(_, _, _, _, _)
WarLoop(store, ws, i, current_date, wars) ==
    IF i > Len(ws) THEN wars
    ELSE WarLoop(store, ws, i + 1, current_date,
                 IF WarIsListed(store, ws[i], Config_show_everything)
                 THEN Append(wars, WarDict(ws[i], current_date))
                 ELSE wars)

get_war_dicts(store, current_date) ==
    WarLoop(store, SortedByKey(store.wars, "start_date_days"), 1, current_date, <<>>)

GetWarDicts ==
    /\ call.op \in {"none", "apply_settings"}
    /\ \E current_date \in CurrentDates :
        /\ call' = [op |-> "get_war_dicts", current_date |-> current_date]
        /\ ret' = Returned(get_war_dicts(db, current_date))
    /\ UNCHANGED <<CONFIG, Config_show_everything, DEFAULT_PLOT_LAYOUT, event_filter,
                   plot_data, galaxy_data, db, known_games, games_dict, outputs>>

InitWars ==
    /\ CONFIG = DefaultConfig
    /\ Config_show_everything = DefaultConfig.show_everything
    /\ DEFAULT_PLOT_LAYOUT = InitialPlotLayout
    /\ event_filter = <<>>
    /\ plot_data = <<>>
    /\ galaxy_data = <<>>
    /\ db \in WarDbs(MaxWars)
    /\ known_games = <<>>
    /\ games_dict = <<>>
    /\ call = NoCall
    /\ ret = NoRet
    /\ outputs = <<>>

NextWars == ApplySettings \/ GetWarDicts

SpecWars == InitWars /\ [][NextWars]_vars

WarListedIn(wars, war) == \E k \in 1..Len(wars) : wars[k].war = war.war_id

HasContactedParticipant(store, war) ==
    \E i \in 1..Len(war.participants) : \E c \in 1..Len(store.countries) :
        /\ store.countries[c].country_id = war.participants[i].country
        /\ ~IsNone(store.countries[c].first_player_contact_date)

(* C7: with the show-everything override of the current configuration        *)
(* active, every war of the store is in the output of get_war_dicts; with it *)
(* inactive, a war is in the output iff one of its participants' countries   *)
(* has a recorded first-contact date.                                        *)
C7_WarVisibilityGate ==
    call.op = "get_war_dicts" =>
        \A w \in 1..Len(db.wars) :
            WarListedIn(ret.val, db.wars[w]) <=>
                (CONFIG.show_everything \/ HasContactedParticipant(db, db.wars[w]))

-----------------------------------------------------------------------------
(* EventLedgerBuilder                                                       *)

MaxEventDay == 1

MaxEvents == 1

EventDays == (0 - MaxEventDay)..MaxEventDay

(* game_info.convert_id_to_name: the display name of an id, a prefix removed *)
convert_id_to_name(id, remove_prefix) == [display |-> id, removed |-> remove_prefix]

(* ", ".join(parts) *)
Join(parts) == [sep |-> ", ", parts |-> parts]

LeaderName(leader) == <<"leader_name", leader.v[1]>>
SystemOriginalName(system) == <<"NAME", system.v[1]>>
PlanetSystem(planet) == PyObj("System", planet.v[1] + 1)

(* What an event refers to: leader, system, planet (in system 2), target country *)
EventRefs ==
    { [leader |-> None, system |-> None, planet |-> None, target_country |-> None],
      [leader |-> PyObj("Leader", 1), system |-> None, planet |-> None, target_country |-> None],
      [leader |-> None, system |-> PyObj("System", 1), planet |-> None, target_country |-> None],
      [leader |-> None, system |-> None, planet |-> PyObj("Planet", 1), target_country |-> None],
      [leader |-> None, system |-> PyObj("System", 1), planet |-> PyObj("Planet", 1),
       target_country |-> None],
      [leader |-> None, system |-> None, planet |-> None, target_country |-> PyObj("Country", 2)] }

IdOf(obj) == IF IsNone(obj) THEN None ELSE PyInt(obj.v[1])

HistoricalEvent(country, start, has_end, known, refs) ==
    [country |-> country, country_id |-> PyInt(country),
     start_date_days |-> start,
     end_date_days |-> IF has_end THEN PyInt(start + 1) ELSE None,
     event_type |-> PyInt(1),
     war |-> None, war_id |-> None,
     leader |-> refs.leader, leader_id |-> IdOf(refs.leader),
     system |-> refs.system, system_id |-> IdOf(refs.system),
     planet |-> refs.planet, planet_id |-> IdOf(refs.planet),
     faction |-> None, faction_id |-> None,
     target_country |-> refs.target_country,
     is_known_to_player |-> known]

HistoricalEvents ==
    { HistoricalEvent(c, d, e, k, r) : c \in {1, 2}, d \in EventDays, e \in BOOLEAN,
                                       k \in BOOLEAN, r \in EventRefs }

(* Event tables of at most n rows, in ascending start date *)
RECURSIVE EventListsOf(_)
EventListsOf(n) ==
    IF n = 0 THEN {<<>>}
    ELSE LET shorter == EventListsOf(n - 1) IN
         shorter \cup
         { Append(es, e) : es \in {l \in shorter : Len(l) = n - 1},
                           e \in HistoricalEvents }

EventDbs(n) ==
    { [countries |-> LedgerCountries, wars |-> <<>>,
       events |-> [i \in 1..Len(es) |-> [event_id |-> i] @@ es[i]]]
      : es \in { l \in EventListsOf(n) :
                    \A i \in 1..(Len(l) - 1) : l[i].start_date_days <= l[i + 1].start_date_days } }

HISTORICAL_EVENT_TYPE_TO_STR_MAP(event_type) == PyStr(<<"event type", event_type.v[1]>>)

get_description(event) == PyStr(<<"description", event.event_id>>)

(* the anchor around flask.url_for of history_page, game_id and the keyword args *)
preformat_history_url(text, game_id, kwargs) ==
    [class |-> "textlink", href |-> [endpoint |-> "history_page", game_id |-> game_id,
                                     args |-> kwargs],
     text |-> text]

(* d[key] = value *)
SetItem(d, key, value) == [k \in DOMAIN d \cup {key} |-> IF k = key THEN value ELSE d[k]]

(* {k: v for (k, v) in d.items() if v is not None} *)
WithoutNone(d) == [k \in {j \in DOMAIN d : ~IsNone(d[j])} |-> d[k]]

EventDict(event) ==
    LET event_dict == [country |-> PyObj("Country", event.country),
                       start_date |-> days_to_date(PyInt(event.start_date_days)),
                       end_date |-> days_to_date(event.end_date_days),
                       event_type |-> HISTORICAL_EVENT_TYPE_TO_STR_MAP(event.event_type),
                       war |-> event.war,
                       leader |-> event.leader,
                       system |-> event.system,
                       planet |-> event.planet,
                       faction |-> event.faction,
                       target_country |-> event.target_country,
                       description |-> get_description(event)]
        with_system == IF ~IsNone(event.planet) /\ IsNone(event_dict.system)
                       THEN [event_dict EXCEPT !.system = PlanetSystem(event.planet)]
                       ELSE event_dict
    IN  WithoutNone(with_system)

(* The last statement of the loop body: event_dict is the object that was appended *)
(* to the list, so the assignment shows in the list                                *)
Backdate_detached(event_list, event) == event_list

Backdate(event_list, event) ==
    IF ~CONFIG.allow_backdating /\ event.start_date_days < 0
    THEN [event_list EXCEPT ![Len(event_list)] =
            SetItem(SetItem(@, "start_date", days_to_date(PyInt(0))),
                    "end_date", days_to_date(PyInt(0)))]
    ELSE event_list

EventLinks(links, event, game_id) ==
    LET l1 == IF ~IsNone(event.leader)
              THEN SetItem(links, event.leader,
                           preformat_history_url(LeaderName(event.leader), game_id,
                                                 [leader |-> event.leader.v[1]]))
              ELSE links
        l2 == IF ~IsNone(event.system)
              THEN SetItem(l1, event.system,
                           preformat_history_url(
                               convert_id_to_name(SystemOriginalName(event.system), "NAME"),
                               game_id, [system |-> event.system.v[1]]))
              ELSE l1
    IN  IF ~IsNone(event.target_country)
        THEN SetItem(l2, event.target_country,
                     preformat_history_url(Names[event.target_country.v[1]], game_id,
                                           [country |-> event.target_country.v[1]]))
        ELSE l2

(* event_filter is <<>> for None *)
EventIsSkipped(filter, event) ==
    \/ filter # <<>> /\ ~include_event(filter, event)
    \/ ~CONFIG.show_everything /\ ~event.is_known_to_player

(* The loop over a country's events; st holds the country's list and the links *)
RECURSIVE EventLoop(_, _, _, _, _)
EventLoop(event_list, i, filter, game_id, st) ==
    IF i > Len(event_list) THEN st
    ELSE LET event == event_list[i] IN
         IF EventIsSkipped(filter, event)
         THEN EventLoop(event_list, i + 1, filter, game_id, st)
         ELSE EventLoop(event_list, i + 1, filter, game_id,
                        [events |-> Backdate(Append(st.events, EventDict(event)), event),
                         links |-> EventLinks(st.links, event, game_id)])

(* sorted(ids) of a list of ids, ascending *)
RECURSIVE Insert(_, _)
Insert(ids, id) ==
    IF ids = <<>> THEN <<id>>
    ELSE IF Head(ids) <= id THEN <<Head(ids)>> \o Insert(Tail(ids), id)
    ELSE <<id>> \o ids

RECURSIVE sorted(_)
sorted(ids) == IF ids = <<>> THEN <<>> ELSE Insert(sorted(Tail(ids)), Head(ids))

AGREEMENTS ==
    << <<"Research Agreement", "has_research_agreement_with_player">>,
       <<"Sensor Link", "has_sensor_link_with_player">>,
       <<"Rivalry", "has_rivalry_with_player">>,
       <<"Defensive Pact", "has_defensive_pact_with_player">>,
       <<"Migration Treaty", "has_migration_treaty_with_player">>,
       <<"Federation", "has_federation_with_player">>,
       <<"Non-aggression Pact", "has_non_aggression_pact_with_player">>,
       <<"Closed Borders", "has_closed_borders_with_player">> >>

CountryDetails(country_model) ==
    LET type == [k \in {"Country Type"} |-> convert_id_to_name(country_model.country_type, "")]
        gov == country_model.government
        with_gov ==
            IF gov # <<>>
            THEN [k \in {"Personality", "Government Type", "Authority", "Ethics", "Civics"} |->
                    CASE k = "Personality" -> convert_id_to_name(gov[1].personality, "")
                      [] k = "Government Type" -> convert_id_to_name(gov[1].gov_type, "gov")
                      [] k = "Authority" -> gov[1].authority
                      [] k = "Ethics" ->
                            Join([i \in 1..Len(gov[1].ethics) |->
                                    convert_id_to_name(sorted(gov[1].ethics)[i], "ethic")])
                      [] k = "Civics" ->
                            Join([i \in 1..Len(gov[1].civics) |->
                                    convert_id_to_name(sorted(gov[1].civics)[i], "civic")])] @@ type
            ELSE type
        data == country_model.most_recent_data
        active(a) == data[1][a[2]]
        labels == SelectSeq(AGREEMENTS, active)
    IN  IF ~country_model.is_player
        THEN IF data # <<>>
             THEN [k \in {"Attitude", "Diplomatic Status"} |->
                    IF k = "Attitude" THEN data[1].attitude_towards_player
                    ELSE IF labels # <<>>
                         THEN Join([i \in 1..Len(labels) |-> labels[i][1]])
                         ELSE "None"] @@ with_gov
             ELSE with_gov
        ELSE [k \in {"Attitude"} |-> "Player Country"] @@ with_gov

EventsOfCountry(store, country_id) ==
    LET mine(e) == e.country = country_id
    IN  SortedByKey(SelectSeq(store.events, mine), "start_date_days")

(* The loop over the countries, in ascending country_id; acc holds the three maps *)
RECURSIVE CountryLoop(_, _, _, _, _)
CountryLoop(store, i, filter, game_id, acc) ==
    IF i > Len(store.countries) THEN acc
    ELSE LET country_model == store.countries[i]
             key == PyObj("Country", country_model.country_id)
             links0 == SetItem(acc.preformatted_links, key,
                               preformat_history_url(country_model.country_name, game_id,
                                                     [country |-> country_model.country_id]))
             st == EventLoop(EventsOfCountry(store, country_model.country_id), 1, filter,
                             game_id, [events |-> <<>>, links |-> links0])
         IN  CountryLoop(store, i + 1, filter, game_id,
                [events |-> IF st.events # <<>>
                            THEN SetItem(acc.events, key, st.events)
                            ELSE acc.events,
                 country_details |-> SetItem(acc.country_details, key,
                                             CountryDetails(country_model)),
                 preformatted_links |-> st.links])

get_event_and_link_dicts(store, game_id, filter) ==
    CountryLoop(store, 1, filter, game_id,
                [events |-> <<>>, country_details |-> <<>>, preformatted_links |-> <<>>])

(* The filters of the ledger requests: none, the default, a minimum date, a leader *)
LedgerFilters ==
    { <<>>,
      EventFilter_init(NegInf, PosInf, None, None, None, None, None, None, None),
      EventFilter_init(Fin(0), PosInf, None, None, None, None, None, None, None),
      EventFilter_init(NegInf, PosInf, None, None, None, PyStr(<<1>>), None, None, None) }

GetEventAndLinkDicts ==
    /\ call.op \in {"none", "apply_settings"}
    /\ \E filter \in LedgerFilters :
        /\ event_filter' = filter
        /\ call' = [op |-> "get_event_and_link_dicts", game_id |-> "game1"]
        /\ ret' = Returned(get_event_and_link_dicts(db, "game1", filter))
    /\ UNCHANGED <<CONFIG, Config_show_everything, DEFAULT_PLOT_LAYOUT, plot_data,
                   galaxy_data, db, known_games, games_dict, outputs>>

InitEvents ==
    /\ CONFIG = DefaultConfig
    /\ Config_show_everything = DefaultConfig.show_everything
    /\ DEFAULT_PLOT_LAYOUT = InitialPlotLayout
    /\ event_filter = <<>>
    /\ plot_data = <<>>
    /\ galaxy_data = <<>>
    /\ db \in EventDbs(MaxEvents)
    /\ known_games = <<>>
    /\ games_dict = <<>>
    /\ call = NoCall
    /\ ret = NoRet
    /\ outputs = <<>>

NextEvents == ApplySettings \/ GetEventAndLinkDicts

SpecEvents == InitEvents /\ [][NextEvents]_vars

Day0 == days_to_date(PyInt(0))

LedgerCalled == call.op = "get_event_and_link_dicts" /\ ret.exc = "none"

(* The stored events of a country that pass the filter and the visibility gate *)
Survivors(country_id) ==
    LET kept(e) == ~EventIsSkipped(event_filter, e)
    IN  SelectSeq(EventsOfCountry(db, country_id), kept)

ProjectedAtDay0 ==
    (LedgerCalled /\ ~CONFIG.allow_backdating) =>
        \A c \in 1..Len(db.countries) :
            LET surv == Survivors(c)
                key == PyObj("Country", c)
            IN  /\ (surv # <<>>) <=> (key \in DOMAIN ret.val.events)
                /\ surv # <<>> =>
                    /\ Len(ret.val.events[key]) = Len(surv)
                    /\ \A i \in 1..Len(surv) :
                        surv[i].start_date_days < 0 =>
                            /\ {"start_date", "end_date"} \subseteq DOMAIN ret.val.events[key][i]
                            /\ ret.val.events[key][i].start_date = Day0
                            /\ ret.val.events[key][i].end_date = Day0

-----------------------------------------------------------------------------
(* Repeated calls of the transforms on an unchanged store and configuration  *)

MaxCalls == 3

(* get_figure_layout: layout is the module-level dictionary itself, the result is *)
(* a go.Layout built from the items the dictionary has at that moment              *)
get_figure_layout_keep_hovermode(layout_dict, style) ==
    LET layout == IF style = "line" THEN SetItem(layout_dict, "hovermode", "closest")
                  ELSE layout_dict
    IN  [DEFAULT_PLOT_LAYOUT |-> layout, val |-> layout]

get_figure_layout(layout_dict, style) ==
    LET layout == IF style = "line" THEN SetItem(layout_dict, "hovermode", "closest")
                  ELSE SetItem(layout_dict, "hovermode", "x")
    IN  [DEFAULT_PLOT_LAYOUT |-> layout, val |-> layout]

(* outputs is the record of the calls made so far, each with what it returned *)
CanCall == Len(outputs) < MaxCalls

Record == outputs' = Append(outputs, [call |-> call', ret |-> ret'])

RepeatGetPlotLines ==
    /\ CanCall
    /\ \E style \in {"line", "stacked", "budget"} :
        /\ call' = [op |-> "get_plot_lines", style |-> style]
        /\ ret' = get_plot_lines(plot_data, style)
    /\ UNCHANGED <<CONFIG, Config_show_everything, DEFAULT_PLOT_LAYOUT, event_filter,
                   plot_data, galaxy_data, db, known_games, games_dict>>
    /\ Record

RepeatGetFigureLayout ==
    /\ CanCall
    /\ \E style \in {"line", "stacked"} :
        LET result == get_figure_layout(DEFAULT_PLOT_LAYOUT, style) IN
        /\ call' = [op |-> "get_figure_layout", style |-> style]
        /\ DEFAULT_PLOT_LAYOUT' = result.DEFAULT_PLOT_LAYOUT
        /\ ret' = Returned(result.val)
    /\ UNCHANGED <<CONFIG, Config_show_everything, event_filter, plot_data, galaxy_data, db,
                   known_games, games_dict>>
    /\ Record

RepeatGetCountryColor ==
    /\ CanCall
    /\ \E country_name \in {"A"}, alpha \in {30, 100} :
        /\ call' = [op |-> "get_country_color", country_name |-> country_name, alpha |-> alpha]
        /\ ret' = Returned(get_country_color(country_name, alpha))
    /\ UNCHANGED <<CONFIG, Config_show_everything, DEFAULT_PLOT_LAYOUT, event_filter,
                   plot_data, galaxy_data, db, known_games, games_dict>>
    /\ Record

RepeatGetWarDicts ==
    /\ CanCall
    /\ \E current_date \in CurrentDates :
        /\ call' = [op |-> "get_war_dicts", current_date |-> current_date]
        /\ ret' = Returned(get_war_dicts(db, current_date))
    /\ UNCHANGED <<CONFIG, Config_show_everything, DEFAULT_PLOT_LAYOUT, event_filter,
                   plot_data, galaxy_data, db, known_games, games_dict>>
    /\ Record

RepeatGetEventAndLinkDicts ==
    /\ CanCall
    /\ \E filter \in {<<>>, EventFilter_init(Fin(0), PosInf, None, None, None, None, None, None, None)} :
        /\ event_filter' = filter
        /\ call' = [op |-> "get_event_and_link_dicts", game_id |-> "game1", filter |-> filter]
        /\ ret' = Returned(get_event_and_link_dicts(db, "game1", filter))
    /\ UNCHANGED <<CONFIG, Config_show_everything, DEFAULT_PLOT_LAYOUT, plot_data,
                   galaxy_data, db, known_games, games_dict>>
    /\ Record

(* Two datasets, the second with a series of both signs *)
SampleDatasets ==
    { <<NamedSeries(1, <<1, 0>>), NamedSeries(2, <<-1, -1>>), NamedSeries(3, <<0, 0>>)>>,
      <<NamedSeries(1, <<1>>), NamedSeries(2, <<1, -1>>)>> }

(* A store with a war between the two countries and events before and after day 0 *)
SampleStore ==
    [countries |-> LedgerCountries,
     wars |-> << [war_id |-> 1, start_date_days |-> 0, end_date_days |-> PyInt(2),
                  participants |-> << [country |-> 1, is_attacker |-> TRUE],
                                      [country |-> 2, is_attacker |-> FALSE] >>,
                  combat |-> << [id |-> 1, date |-> 2, attacker_war_exhaustion |-> 20,
                                 defender_war_exhaustion |-> 0, combat_type |-> "ships"] >>] >>,
     gamestates |-> <<1, 3>>,
     events |-> << [event_id |-> 1] @@
                       HistoricalEvent(1, 0 - 1, FALSE, TRUE,
                           [leader |-> PyObj("Leader", 1), system |-> None, planet |-> None,
                            target_country |-> None]),
                   [event_id |-> 2] @@
                       HistoricalEvent(2, 1, TRUE, FALSE,
                           [leader |-> None, system |-> None, planet |-> PyObj("Planet", 1),
                            target_country |-> PyObj("Country", 1)]) >>]

InitIdem ==
    /\ CONFIG \in [BOOL_KEYS -> BOOLEAN]
    /\ Config_show_everything = DefaultConfig.show_everything
    /\ DEFAULT_PLOT_LAYOUT = InitialPlotLayout
    /\ event_filter = <<>>
    /\ plot_data \in SampleDatasets
    /\ galaxy_data = <<>>
    /\ db = SampleStore
    /\ known_games = <<>>
    /\ games_dict = <<>>
    /\ call = NoCall
    /\ ret = NoRet
    /\ outputs = <<>>

NextIdem ==
    \/ RepeatGetPlotLines
    \/ RepeatGetFigureLayout
    \/ RepeatGetCountryColor
    \/ RepeatGetWarDicts
    \/ RepeatGetEventAndLinkDicts

SpecIdem == InitIdem /\ [][NextIdem]_vars

(* C9: with the store and the configuration unchanged, two calls of a transform    *)
(* with the same arguments return the same output, whatever was called in between. *)
C9_RepeatedCallSameOutput ==
    \A i \in 1..Len(outputs) : \A j \in 1..Len(outputs) :
        outputs[i].call = outputs[j].call => outputs[i].ret = outputs[j].ret

C9_Witness ==
    /\ Len(outputs) = 3
    /\ outputs[1].call = [op |-> "get_figure_layout", style |-> "stacked"]
    /\ outputs[2].call = [op |-> "get_figure_layout", style |-> "line"]
    /\ outputs[3].call = outputs[1].call
    /\ outputs[2].ret # outputs[1].ret
    /\ DEFAULT_PLOT_LAYOUT # InitialPlotLayout

-----------------------------------------------------------------------------
(* The request handlers and the lookup of the requested game                *)

MaxGames == 2

(* Game ids are character sequences: "g", "gg", ... *)
GameIds == { [i \in 1..n |-> "g"] : n \in 1..MaxGames }

RequestedIds == {None, PyStr(<<>>), PyStr(<<"x">>)} \cup { PyStr(g) : g \in GameIds }

IsPrefix(prefix, name) ==
    /\ Len(prefix) <= Len(name)
    /\ \A i \in 1..Len(prefix) : name[i] = prefix[i]

(* models.get_known_games: the known games whose name starts with the prefix *)
get_known_games(known, game_name_prefix) ==
    LET matching(g) == IsPrefix(game_name_prefix, g) IN SelectSeq(known, matching)

(* models.get_available_games_dict: game id -> name of the player's country *)
get_available_games_dict(available) == available

(* The lists of known games: the ids of a set of games, shortest first *)
RECURSIVE KnownGamesLists(_)
KnownGamesLists(n) ==
    IF n = 0 THEN {<<>>}
    ELSE LET shorter == KnownGamesLists(n - 1) IN
         shorter \cup { Append(l, [i \in 1..n |-> "g"]) : l \in shorter }

(* The available games are known games whose database names a player country *)
AvailableGamesDicts(known) ==
    UNION { [ids -> {"A"}] : ids \in SUBSET { known[i] : i \in 1..Len(known) } }

render_template(name, context) == [kind |-> "template", template |-> name, context |-> context]

(* the newest GameState of the session, 0 without one; the rows are in date order *)
get_most_recent_date(store) ==
    IF store.gamestates = <<>> THEN 0 ELSE store.gamestates[Len(store.gamestates)]

(* url is the value of game_name in the query string, None without one *)
get_game_ids_matching_url(known, url) ==
    LET game_id == IF IsNone(url) THEN <<>> ELSE url.v
    IN  [game_id |-> game_id, matches |-> get_known_games(known, game_id)]

(* The result and the event filter history_page leaves behind *)
history_page(known, available, store, game_id_arg, country_arg) ==
    LET game_id == IF IsNone(game_id_arg) THEN <<>> ELSE game_id_arg.v
        found == get_available_games_dict(available)
        matches == get_known_games(known, game_id)
        is_filtered_page == ~IsNone(country_arg) /\ country_arg.v # <<>>
        date == get_most_recent_date(store)
        constructed == EventFilter([min_date |-> NegInf, max_date |-> PosInf,
                                    country_filter |-> country_arg, type_filter |-> None,
                                    war_filter |-> None, leader_filter |-> None,
                                    system_filter |-> None, planet_filter |-> None,
                                    faction_filter |-> None])
        filter == constructed.val
        ledger == get_event_and_link_dicts(store, matches[1], filter)
    IN  IF matches = <<>>
        THEN [ret |-> Returned(render_template("404_page.html",
                                   [game_not_found |-> TRUE, game_name |-> game_id])),
              event_filter |-> event_filter]
        ELSE IF matches[1] \notin DOMAIN found
        THEN [ret |-> Raised("KeyError"), event_filter |-> event_filter]
        ELSE IF constructed.exc # "none"
        THEN [ret |-> constructed, event_filter |-> event_filter]
        ELSE [ret |-> Returned(render_template("history_page.html",
                        [page_title |-> IF is_filtered_page
                                        THEN <<"History", country_arg, None, None>>
                                        ELSE <<"Global Event Ledger">>,
                         game_name |-> matches[1],
                         country |-> found[matches[1]],
                         wars |-> IF is_filtered_page THEN <<>> ELSE get_war_dicts(store, date),
                         events |-> ledger.events,
                         country_details |-> ledger.country_details,
                         links |-> ledger.preformatted_links,
                         is_filtered_page |-> is_filtered_page,
                         show_old_version_notice |-> FALSE])),
              event_filter |-> filter]

update_game_header(known, available, search) ==
    LET url == get_game_ids_matching_url(known, search)
        found == get_available_games_dict(available)
    IN  IF url.matches = <<>> THEN Returned([kind |-> "text", text |-> <<"Unknown Game">>])
        ELSE IF url.matches[1] \notin DOMAIN found THEN Raised("KeyError")
        ELSE Returned([kind |-> "text", text |-> <<found[url.matches[1]], " (", url.matches[1], ")">>])

(* visualization_data.THEMATICALLY_GROUPED_PLOTS: the plot styles of each tab *)
THEMATICALLY_GROUPED_PLOTS == [Economy |-> <<"line", "budget">>, Demographics |-> <<"stacked">>]

TabValues == {"Economy", "Demographics", "Galaxy Map"}

(* The loop over the plots of a tab; an exception of get_figure_data ends it *)
RECURSIVE PlotLoop(_, _, _, _, _)
PlotLoop(data, plots, i, layout_dict, children) ==
    IF i > Len(plots)
    THEN [ret |-> Returned([kind |-> "children", children |-> children]),
          DEFAULT_PLOT_LAYOUT |-> layout_dict]
    ELSE LET figure_data == get_plot_lines(data, plots[i])
             figure_layout == get_figure_layout(layout_dict, plots[i])
         IN  IF figure_data.exc # "none"
             THEN [ret |-> figure_data, DEFAULT_PLOT_LAYOUT |-> layout_dict]
             ELSE PlotLoop(data, plots, i + 1, figure_layout.DEFAULT_PLOT_LAYOUT,
                           children \o << [H2 |-> <<"title", plots[i]>>],
                                          [Graph |-> <<"plot_id", plots[i]>>,
                                           figure |-> [data |-> figure_data.val,
                                                       layout |-> figure_layout.val]] >>)

(* The value of the date slider, in percent.  The slider offers 0 to 100; the *)
(* callback takes the value that the request carries                          *)
DateFractions == {0 - 50, 0, 50, 100, 150}

update_content(known, available, store, data, galaxy, layout_dict, tab_value, search, date_fraction) ==
    LET url == get_game_ids_matching_url(known, search)
        found == get_available_games_dict(available)
        current_date == get_most_recent_date(store)
        \* slider_date = 0.01 * date_fraction * current_date, held in hundredths of a day;
        \* the records of the galaxy are dated in whole days, so the owner as of
        \* slider_date is the owner as of its whole part
        slider_date == date_fraction * current_date
        whole_days == slider_date \div 100
        plots == PlotLoop(data, THEMATICALLY_GROUPED_PLOTS[tab_value], 1, layout_dict, <<>>)
        graph == get_galaxy(galaxy, whole_days)
    IN  IF url.matches = <<>>
        THEN [ret |-> Returned(render_template("404_page.html",
                                   [game_not_found |-> TRUE, game_name |-> url.game_id])),
              DEFAULT_PLOT_LAYOUT |-> layout_dict, calls |-> <<>>]
        ELSE IF url.matches[1] \notin DOMAIN found
        THEN [ret |-> Returned([kind |-> "children", children |-> <<>>]),
              DEFAULT_PLOT_LAYOUT |-> layout_dict, calls |-> <<>>]
        ELSE IF tab_value \in DOMAIN THEMATICALLY_GROUPED_PLOTS
        THEN [ret |-> plots.ret, DEFAULT_PLOT_LAYOUT |-> plots.DEFAULT_PLOT_LAYOUT,
              calls |-> <<>>]
        ELSE [ret |-> Returned([kind |-> "children",
                                children |-> << graph,
                                                [P |-> <<"Galactic Records for",
                                                         days_to_date(PyInt(whole_days))>>] >>]),
              DEFAULT_PLOT_LAYOUT |-> layout_dict,
              calls |-> << [call |-> [op |-> "get_galaxy", game_id |-> url.matches[1],
                                      date |-> slider_date],
                            ret |-> Returned(graph)] >>]

HistoryPage ==
    /\ call.op = "none"
    /\ \E game_id \in RequestedIds, country \in {None, PyStr(<<1>>), PyStr(<<>>)} :
        LET result == history_page(known_games, games_dict, db, game_id, country) IN
        /\ call' = [op |-> "history_page", game_id |-> game_id, country |-> country]
        /\ ret' = result.ret
        /\ event_filter' = result.event_filter
    /\ UNCHANGED <<CONFIG, Config_show_everything, DEFAULT_PLOT_LAYOUT, plot_data,
                   galaxy_data, db, known_games, games_dict, outputs>>

UpdateGameHeader ==
    /\ call.op = "none"
    /\ \E search \in RequestedIds :
        /\ call' = [op |-> "update_game_header", game_id |-> search]
        /\ ret' = update_game_header(known_games, games_dict, search)
    /\ UNCHANGED <<CONFIG, Config_show_everything, DEFAULT_PLOT_LAYOUT, event_filter,
                   plot_data, galaxy_data, db, known_games, games_dict, outputs>>

UpdateContent ==
    /\ call.op = "none"
    /\ \E search \in RequestedIds, tab_value \in TabValues, date_fraction \in DateFractions :
        LET result == update_content(known_games, games_dict, db, plot_data, galaxy_data,
                                     DEFAULT_PLOT_LAYOUT, tab_value, search, date_fraction) IN
        /\ call' = [op |-> "update_content", game_id |-> search, tab_value |-> tab_value,
                     date_fraction |-> date_fraction]
        /\ ret' = result.ret
        /\ DEFAULT_PLOT_LAYOUT' = result.DEFAULT_PLOT_LAYOUT
        /\ outputs' = outputs \o result.calls
    /\ UNCHANGED <<CONFIG, Config_show_everything, event_filter, plot_data, galaxy_data, db,
                   known_games, games_dict>>

InitLookup ==
    /\ CONFIG = DefaultConfig
    /\ Config_show_everything = DefaultConfig.show_everything
    /\ DEFAULT_PLOT_LAYOUT = InitialPlotLayout
    /\ event_filter = <<>>
    /\ plot_data \in SampleDatasets
    /\ galaxy_data \in Galaxies({ << [date |-> 0, owner |-> "A"] >> })
    /\ db = SampleStore
    /\ known_games \in KnownGamesLists(MaxGames)
    /\ games_dict \in AvailableGamesDicts(known_games)
    /\ call = NoCall
    /\ ret = NoRet
    /\ outputs = <<>>

NextLookup == HistoryPage \/ UpdateGameHeader \/ UpdateContent

SpecLookup == InitLookup /\ [][NextLookup]_vars

(* The game the request resolves to, if any: the first known match, when available *)
RequestResolves ==
    LET game_id == IF IsNone(call.game_id) THEN <<>> ELSE call.game_id.v
        matches == get_known_games(known_games, game_id)
    IN  matches # <<>> /\ matches[1] \in DOMAIN games_dict

IsNotFoundResult ==
    /\ ret.exc = "none"
    /\ \/ ret.val.kind = "text" /\ Len(ret.val.text) = 1 /\ ret.val.text[1] = "Unknown Game"
       \/ ret.val.kind = "children" /\ ret.val.children = <<>>
       \/ ret.val.kind = "template" /\ ret.val.template = "404_page.html"
                                    /\ ret.val.context.game_not_found

(* C10: whenever the requested id does not resolve to an available game, each of  *)
(* history_page, update_game_header and update_content returns a not-found result *)
(* (the 404 page, "Unknown Game" or the empty list) and raises nothing.           *)
C10_LookupMissIsNotFound ==
    (call.op \in {"history_page", "update_game_header", "update_content"} /\ ~RequestResolves)
        => IsNotFoundResult

-----------------------------------------------------------------------------
(* Filter values that are not ids                                           *)

(* What a request can provide for an id filter: nothing, "1", "" and "1" followed *)
(* by a character that is no digit                                                *)
ProvidedIdArgs == {None, PyStr(<<1>>), PyStr(<<>>), PyStr(<<1, 0 - 1>>)}

IdFilterKeys ==
    {"country_filter", "type_filter", "war_filter", "leader_filter", "system_filter",
     "planet_filter", "faction_filter"}

ConstructEventFilter ==
    /\ call.op = "none"
    /\ \E c \in ProvidedIdArgs, ty \in ProvidedIdArgs \cup {PyInt(1)} :
       \E w \in {None, PyStr(<<1>>)}, l \in {None, PyStr(<<>>)}, sy \in {None, PyStr(<<1>>)} :
        LET args == [min_date |-> NegInf, max_date |-> PosInf, country_filter |-> c,
                     type_filter |-> ty, war_filter |-> w, leader_filter |-> l,
                     system_filter |-> sy, planet_filter |-> None, faction_filter |-> None]
            constructed == EventFilter(args)
        IN  /\ call' = [op |-> "EventFilter", args |-> args]
            /\ ret' = IF constructed.exc = "none" THEN NoRet ELSE constructed
            /\ event_filter' = IF constructed.exc = "none" THEN constructed.val
                               ELSE event_filter
    /\ UNCHANGED <<CONFIG, Config_show_everything, DEFAULT_PLOT_LAYOUT, plot_data,
                   galaxy_data, db, known_games, games_dict, outputs>>

InitMalformed ==
    /\ CONFIG = DefaultConfig
    /\ Config_show_everything = DefaultConfig.show_everything
    /\ DEFAULT_PLOT_LAYOUT = InitialPlotLayout
    /\ event_filter = <<>>
    /\ plot_data \in SampleDatasets
    /\ galaxy_data = <<>>
    /\ db = SampleStore
    /\ known_games = << <<"g">> >>
    /\ games_dict = [id \in { <<"g">> } |-> "A"]
    /\ call = NoCall
    /\ ret = NoRet
    /\ outputs = <<>>

NextMalformed == ConstructEventFilter \/ IncludeEvent \/ HistoryPage

SpecMalformed == InitMalformed /\ [][NextMalformed]_vars

(* C11: a provided id filter (country, type, war, leader, system, planet, faction) *)
(* that is no integer makes the construction of the EventFilter fail; so every     *)
(* constructed filter holds only integer ids; and history_page, given such a       *)
(* value for an available game, still returns a page and raises nothing.           *)
C11_MalformedFilterFailsFast ==
    /\ (call.op = "EventFilter" /\ \E k \in IdFilterKeys : IntRaises(call.args[k]))
            => ret.exc # "none"
    /\ (call.op \in {"EventFilter", "include_event"} /\ ret.exc = "none")
            => \A k \in IdFilterKeys : IsNone(event_filter[k]) \/ event_filter[k].t = "int"
    /\ (call.op = "history_page" /\ RequestResolves) => ret.exc = "none"

-----------------------------------------------------------------------------
(* C12: get_plot_lines raises nothing, whatever the style and the lengths of the  *)
(* series of the dataset; it returns a list of series, the empty list for a style *)
(* that is none of line, stacked and budget.                                      *)
C12_PlotLinesNeverRaises ==
    call.op = "get_plot_lines" =>
        /\ ret.exc = "none"
        /\ call.style \notin {"line", "stacked", "budget"} => ret.val = <<>>

-----------------------------------------------------------------------------
(* The projected dicts of the surviving events, of all countries *)
ProjectedDicts ==
    UNION { { ret.val.events[c][i] : i \in 1..Len(ret.val.events[c]) }
            : c \in DOMAIN ret.val.events }

(* The entities these dicts mention under the given keys *)
Mentioned(keys) ==
    UNION { { d[k] : k \in keys \cap DOMAIN d } : d \in ProjectedDicts }

(* C13: the links map has an entry for every country of the store and for every  *)
(* leader, system and target country mentioned in the projected dict of a         *)
(* surviving event, a system inherited from the event's planet included; and it   *)
(* has no leader or system entry that no surviving event mentions.                *)
C13_CrossLinksComplete ==
    LedgerCalled =>
        LET links == DOMAIN ret.val.preformatted_links IN
        /\ \A i \in 1..Len(db.countries) : PyObj("Country", db.countries[i].country_id) \in links
        /\ Mentioned({"leader", "system", "target_country"}) \subseteq links
        /\ \A key \in links :
            key.t \in {"Leader", "System"} => key \in Mentioned({"leader", "system"})

-----------------------------------------------------------------------------
(* C14: every war in the output of get_war_dicts shows the rendering of its     *)
(* recorded end date when one is recorded, day 0 included, and the rendering of *)
(* the current date given by the caller only when none is recorded.             *)
C14_WarEndDate ==
    call.op = "get_war_dicts" =>
        \A k \in 1..Len(ret.val) : \A w \in 1..Len(db.wars) :
            ret.val[k].war = db.wars[w].war_id =>
                ret.val[k].end = IF IsNone(db.wars[w].end_date_days)
                                 THEN days_to_date(PyInt(call.current_date))
                                 ELSE days_to_date(db.wars[w].end_date_days)

-----------------------------------------------------------------------------
(* The galaxy tab and the date slider                                       *)

(* The stores of a game with no saved state yet, and with the latest at day 2 or 3 *)
SliderStores == { [SampleStore EXCEPT !.gamestates = g] : g \in {<<>>, <<2>>, <<1, 3>>} }

InitSlider ==
    /\ CONFIG = DefaultConfig
    /\ Config_show_everything = DefaultConfig.show_everything
    /\ DEFAULT_PLOT_LAYOUT = InitialPlotLayout
    /\ event_filter = <<>>
    /\ plot_data \in SampleDatasets
    /\ galaxy_data \in Galaxies({ << [date |-> 0, owner |-> "A"], [date |-> 2, owner |-> "B"] >> })
    /\ db \in SliderStores
    /\ known_games = << <<"g">> >>
    /\ games_dict = [id \in { <<"g">> } |-> "A"]
    /\ call = NoCall
    /\ ret = NoRet
    /\ outputs = <<>>

NextSlider == UpdateContent

SpecSlider == InitSlider /\ [][NextSlider]_vars

(* C15: the date that update_content passes to get_galaxy is the fraction of the *)
(* latest known date of the save, clamped into [0, latest known date]: it is     *)
(* never negative and never later than the latest known date.  Dates are in      *)
(* hundredths of a day.                                                          *)
C15_GalaxyDateClamped ==
    call.op = "update_content" =>
        \A i \in 1..Len(outputs) :
            outputs[i].call.op = "get_galaxy" =>
                LET latest == 100 * get_most_recent_date(db)
                    target == call.date_fraction * get_most_recent_date(db)
                    date == outputs[i].call.date
                IN  /\ 0 <= date
                    /\ date <= latest
                    /\ date = Max(0, Min(target, latest))

-----------------------------------------------------------------------------
(* Requests that run get_figure_layout at the same time, each in its own thread. *)
(* Here call and ret hold one entry per request; pc is the statement a request   *)
(* executes next.                                                                *)

MaxRequests == 2

Requests == 1..MaxRequests

(* layout = DEFAULT_PLOT_LAYOUT; layout["hovermode"] = ...: the assignment goes *)
(* to the dictionary of the module, which layout names                          *)
SetHovermode(r) ==
    /\ call[r].pc = "set hovermode"
    /\ DEFAULT_PLOT_LAYOUT' =
            get_figure_layout(DEFAULT_PLOT_LAYOUT, call[r].style).DEFAULT_PLOT_LAYOUT
    /\ call' = [call EXCEPT ![r].pc = "return"]
    /\ UNCHANGED <<CONFIG, Config_show_everything, event_filter, plot_data, galaxy_data, db,
                   known_games, games_dict, ret, outputs>>

(* return go.Layout of the items that the dictionary holds now *)
ReturnLayout(r) ==
    /\ call[r].pc = "return"
    /\ ret' = [ret EXCEPT ![r] = Returned(DEFAULT_PLOT_LAYOUT)]
    /\ call' = [call EXCEPT ![r].pc = "done"]
    /\ UNCHANGED <<CONFIG, Config_show_everything, DEFAULT_PLOT_LAYOUT, event_filter,
                   plot_data, galaxy_data, db, known_games, games_dict, outputs>>

InitConcurrent ==
    /\ CONFIG = DefaultConfig
    /\ Config_show_everything = DefaultConfig.show_everything
    /\ DEFAULT_PLOT_LAYOUT = InitialPlotLayout
    /\ event_filter = <<>>
    /\ plot_data = <<>>
    /\ galaxy_data = <<>>
    /\ db = <<>>
    /\ known_games = <<>>
    /\ games_dict = <<>>
    /\ \E styles \in [Requests -> PlotStyles] :
        call = [r \in Requests |->
                    [op |-> "get_figure_layout", style |-> styles[r], pc |-> "set hovermode"]]
    /\ ret = [r \in Requests |-> NoRet]
    /\ outputs = <<>>

NextConcurrent == \E r \in Requests : SetHovermode(r) \/ ReturnLayout(r)

SpecConcurrent == InitConcurrent /\ [][NextConcurrent]_vars

(* C16: under every interleaving of the requests, each request gets a layout with *)
(* the hovermode of its own style: closest for line, x for every other style.     *)
C16_OwnHovermode ==
    \A r \in DOMAIN call :
        (call[r].op = "get_figure_layout" /\ call[r].pc = "done") =>
            ret[r].val.hovermode = IF call[r].style = "line" THEN "closest" ELSE "x"

-----------------------------------------------------------------------------
(* C17: in every style, each series of the output of get_plot_lines, the Net gain *)
(* series of the budget style included, has x, y and hover text of one length,    *)
(* given that each input series has x and y of equal length.                      *)
C17_OutputSeriesWellFormed ==
    (call.op = "get_plot_lines" /\ ret.exc = "none") =>
        \A i \in 1..Len(ret.val) :
            /\ Len(ret.val[i].x) = Len(ret.val[i].y)
            /\ Len(ret.val[i].text) = Len(ret.val[i].y)

=============================================================================
